---- MODULE Spec2Model ----
(***************************************************************************)
(* CanvasToNotion: the one-shot sync pass of src/index.ts (fetch, reconcile *)
(* by assignment id, create / update pages) and the credential getters      *)
(* getNotionKey / getCanvasKey / getCanvasUrl.                               *)
(*                                                                         *)
(* Optional values (TypeScript `T | undefined | null`) are sequences of     *)
(* length at most one: <<>> is the absent value, <<x>> the present one.     *)
(***************************************************************************)
EXTENDS Integers, Sequences, FiniteSets, TLC

VARIABLES
    pc,                  \* position of the top-level script (lines 17-87)
    run,                 \* number of the current invocation of the script
    db,                  \* pages of the selected destination database, in query order
    nextPageId,          \* next page id the destination store hands out
    assignments,         \* line 23: result of getAssignments
    newEntries,          \* line 25
    existingAssignments, \* line 29: the assignmentIds array of getExistingAssignments
    updatedEntries,      \* line 31
    toCreate,            \* line 49
    newPages,            \* line 56: state of each notion.pages.create promise
    updateWrites,        \* line 69: the arguments of each notion.pages.update call
    updatedPages,        \* line 67: state of each notion.pages.update promise
    log,                 \* lines written through logger, as [run, level]
    error,               \* line 84: what the catch block caught, if anything
    configDir,           \* credential store: does paths.config exist
    files,               \* credential store: contents of the three secret files
    lastCall             \* credential store: the last getter call and its outcome

vars == <<pc, run, db, nextPageId, assignments, newEntries, existingAssignments,
          updatedEntries, toCreate, newPages, updateWrites, updatedPages, log, error,
          configDir, files, lastCall>>

syncVars == <<pc, run, db, nextPageId, assignments, newEntries, existingAssignments,
              updatedEntries, toCreate, newPages, updateWrites, updatedPages, log,
              error>>

credVars == <<configDir, files, lastCall>>

----------------------------------------------------------------------------
(* Bounds of the model *)

MaxAssignments == 2

MaxInitialPages == 2

MaxRuns == 2

\* results returned by one notion.databases.query call (100 in the service), scaled down
QueryPageSize == 2

----------------------------------------------------------------------------
(* Values *)

None == <<>>

Some(x) == <<x>>

SENTINEL == "SYS_EXCEPTION_GRADE"

Names == {"HW1", SENTINEL}

DueDates == {"2024-01-01"}

Urls == {"https://canvas/a"}

CourseIds == {7}

Ids == {0, 1}

OptOf(S) == {None} \cup {Some(x) : x \in S}

\* Assignment of api-canvas-ts: every field is optional.  The inputs enumerated are
\* the records with both a due date and a link and the records with neither; of a
\* sentinel-named record only the name is ever read (lines 26 and 32), so its other
\* fields are enumerated less widely.
Assignment ==
    {a \in [id : OptOf(Ids), name : {Some(n) : n \in Names}, due_at : OptOf(DueDates),
            html_url : OptOf(Urls), course_id : {Some(c) : c \in CourseIds}] :
        /\ (a.due_at = None) <=> (a.html_url = None)
        /\ a.name = Some(SENTINEL) => (a.due_at # None /\ a.id # Some(0))}

SeqsUpTo(S, n) == UNION {[1..k -> S] : k \in 0..n}

----------------------------------------------------------------------------
(* Number.prototype.toString for integers *)

Digit(d) ==
    CASE d = 0 -> "0" [] d = 1 -> "1" [] d = 2 -> "2" [] d = 3 -> "3" [] d = 4 -> "4"
      [] d = 5 -> "5" [] d = 6 -> "6" [] d = 7 -> "7" [] d = 8 -> "8" [] d = 9 -> "9"

RECURSIVE NatToString(_)
NatToString(n) == IF n < 10 THEN Digit(n) ELSE NatToString(n \div 10) \o Digit(n % 10)

toString(n) == IF n < 0 THEN "-" \o NatToString(-n) ELSE NatToString(n)

\* new Date().toISOString(): the clock advances from one invocation to the next
toISOString == "now@" \o toString(run)

Range(s) == {s[i] : i \in 1..Len(s)}

Min(a, b) == IF a < b THEN a ELSE b

----------------------------------------------------------------------------
(* Page properties of the destination store *)

NumberProp(n) == [type |-> "number", number |-> n, text |-> None]

TextProp(t, s) == [type |-> t, number |-> None, text |-> s]

AID == "Assignment Id"

\* the "Assignment Id" property a page of the selected database may carry
AssignmentIdProps ==
    {NumberProp(n) : n \in OptOf(Ids)} \cup {TextProp("rich_text", Some("1"))}

\* a partial page object, which has no "properties" key: no property at all
NoProperties == [k \in {} |-> NumberProp(None)]

\* line 95: Object.hasOwn(page, "properties")
HasProperties(page) == DOMAIN page.properties # {}

\* properties of a page that is in the database before the first run
InitialProperties ==
    LET due == ("Due Date" :> TextProp("date", Some("2023-12-01")))
    IN  {NoProperties, due} \cup {due @@ (AID :> p) : p \in AssignmentIdProps}

InitialDatabases ==
    {[i \in 1..Len(ps) |-> [id |-> i, properties |-> ps[i]]] :
        ps \in SeqsUpTo(InitialProperties, MaxInitialPages)}

AssignmentLists == SeqsUpTo(Assignment, MaxAssignments)

----------------------------------------------------------------------------
(* Reconciliation: lines 25-54 *)

\* lines 26 and 32: assignment.name !== "SYS_EXCEPTION_GRADE"
NotSentinel(assignment) == assignment.name # Some(SENTINEL)

\* lines 128-153
assignmentToNewPage(assignment) ==
    ("Name" :> TextProp("title",
        Some(IF assignment.name = None THEN "Untitled" ELSE assignment.name[1])))
    @@ ("Due Date" :> TextProp("date",
        Some(IF assignment.due_at = None THEN toISOString ELSE assignment.due_at[1])))
    @@ (AID :> NumberProp(assignment.id))
    @@ ("Subject Id" :> TextProp("rich_text",
        Some(toString(IF assignment.course_id = None THEN 0 ELSE assignment.course_id[1]))))
    @@ ("Assignment URL" :> TextProp("url", assignment.html_url))

\* lines 155-169; pageId is the page the assignment was matched to (lines 37-45)
assignmentToUpdatedPage(assignment, pageId) ==
    [page_id |-> pageId,
     properties |->
        ("Due Date" :> TextProp("date",
            Some(IF assignment.due_at = None THEN toISOString ELSE assignment.due_at[1])))
        @@ ("Assignment URL" :> TextProp("url", assignment.html_url))]

\* lines 25-27
NewEntries(as) ==
    LET kept == SelectSeq(as, NotSentinel)
    IN  [i \in 1..Len(kept) |-> assignmentToNewPage(kept[i])]

\* lines 90-92: one query call, the first result page only; no cursor is followed
QueryResults(pages) == SubSeq(pages, 1, Min(Len(pages), QueryPageSize))

\* line 108: assignmentIdProperty?.type !== "number" is false
IsNumberProperty(page) ==
    /\ AID \in DOMAIN page.properties
    /\ page.properties[AID].type = "number"

\* line 110: if (assignmentIdProperty.number), the truthiness of a number or null
Truthy(number) == number # None /\ number[1] # 0

\* lines 94-115: is the page pushed onto assignmentIds
InLookup(page) ==
    /\ HasProperties(page)
    /\ IsNumberProperty(page)
    /\ Truthy(page.properties[AID].number)

\* faulty variant of getExistingAssignments: a text-typed Assignment Id is coerced
\* into a join key instead of being skipped
getExistingAssignments_Coerce(pages) ==
    LET kept == SelectSeq(QueryResults(pages),
                    LAMBDA p : /\ HasProperties(p)
                               /\ AID \in DOMAIN p.properties
                               /\ \/ Truthy(p.properties[AID].number)
                                  \/ p.properties[AID].text # None)
    IN  [i \in 1..Len(kept) |->
            [assignmentId |->
                IF kept[i].properties[AID].number # None
                THEN toString(kept[i].properties[AID].number[1])
                ELSE kept[i].properties[AID].text[1],
             pageId |-> kept[i].id]]

\* lines 89-121, the assignmentIds array of the result
getExistingAssignments(pages) ==
    LET kept == SelectSeq(QueryResults(pages), InLookup)
    IN  [i \in 1..Len(kept) |->
            [assignmentId |-> toString(kept[i].properties[AID].number[1]),
             pageId |-> kept[i].id]]

\* lines 33-34 and 38-39: assignmentObj.assignmentId === assignment.id?.toString()
SameId(assignmentObj, assignment) ==
    /\ assignment.id # None
    /\ assignmentObj.assignmentId = toString(assignment.id[1])

\* Array.prototype.find: the index of the first matching element, 0 when there is none
Find(lookup, assignment) ==
    LET hits == {i \in 1..Len(lookup) : SameId(lookup[i], assignment)}
    IN  IF hits = {} THEN 0 ELSE CHOOSE i \in hits : \A j \in hits : i <= j

\* lines 31-35: the filter of updatedEntries
IsMatched(assignment, lookup) == NotSentinel(assignment) /\ Find(lookup, assignment) # 0

\* lines 31-47
UpdatedEntries(as, lookup) ==
    LET kept == SelectSeq(as, LAMBDA a : IsMatched(a, lookup))
    IN  [i \in 1..Len(kept) |->
            assignmentToUpdatedPage(kept[i], lookup[Find(lookup, kept[i])].pageId)]

\* line 53: entry["Assignment Id"].number.toString() throws a TypeError on undefined
ThrowsTypeError(entries) == \E i \in 1..Len(entries) : entries[i][AID].number = None

\* faulty variant of IsToCreate: every new entry is created, matched or not
IsToCreate_NoFilter(entry, lookup) == TRUE

\* lines 50-53: the filter of toCreate
IsToCreate(entry, lookup) ==
    toString(entry[AID].number[1]) \notin {lookup[i].assignmentId : i \in 1..Len(lookup)}

\* lines 49-54
ToCreate(entries, lookup) == SelectSeq(entries, LAMBDA e : IsToCreate(e, lookup))

\* lines 69-74: the argument of notion.pages.update
UpdateCall(page) ==
    [page_id |-> page.page_id,
     properties |-> ("Due Date" :> page.properties["Due Date"])]

----------------------------------------------------------------------------
(* The credential files: lines 354-431 *)

SecretFiles == {"notion.key", "canvas.key", "canvas.url"}

SecretValues == {"s1", "s2"}

NoCall == [file |-> "", absent |-> FALSE, entered |-> None, outcome |-> "none",
           value |-> None]

----------------------------------------------------------------------------
(* The sync pass: lines 17-87 *)

Line(level) == [run |-> run, level |-> level]

\* lines 84-87: the catch block logs one error line and the script ends
Catch(lines, thrown) ==
    /\ error' = Some(thrown)
    /\ log' = lines \o <<Line("error")>>
    /\ pc' = "done"

Init ==
    /\ pc = "start"
    /\ run = 1
    /\ db = <<>>
    /\ nextPageId = 1
    /\ assignments = <<>>
    /\ newEntries = <<>>
    /\ existingAssignments = <<>>
    /\ updatedEntries = <<>>
    /\ toCreate = <<>>
    /\ newPages = <<>>
    /\ updateWrites = <<>>
    /\ updatedPages = <<>>
    /\ log = <<>>
    /\ error = None
    /\ configDir = TRUE
    /\ files = [f \in SecretFiles |-> Some("s1")]
    /\ lastCall = NoCall

\* lines 18-19: the database the user selects (or creates, then empty) and its pages;
\* a later invocation selects the same database
GetDatabase ==
    /\ pc = "start"
    /\ log' = Append(log, Line("info"))
    /\ IF run = 1
       THEN \E pages \in InitialDatabases :
                /\ db' = pages
                /\ nextPageId' = Len(pages) + 1
       ELSE UNCHANGED <<db, nextPageId>>
    /\ pc' = "getCourses"
    /\ UNCHANGED <<run, assignments, newEntries, existingAssignments, updatedEntries,
                   toCreate, newPages, updateWrites, updatedPages, error>>
    /\ UNCHANGED credVars

\* line 21
GetCourses ==
    /\ pc = "getCourses"
    /\ pc' = "getAssignments"
    /\ UNCHANGED <<run, db, nextPageId, assignments, newEntries, existingAssignments,
                   updatedEntries, toCreate, newPages, updateWrites, updatedPages, log,
                   error>>
    /\ UNCHANGED credVars

\* lines 23-27; a later invocation is given the same assignment list
GetAssignments ==
    /\ pc = "getAssignments"
    /\ \E A \in AssignmentLists :
        /\ run > 1 => A = assignments
        /\ assignments' = A
        /\ newEntries' = NewEntries(A)
    /\ pc' = "getExistingAssignments"
    /\ UNCHANGED <<run, db, nextPageId, existingAssignments, updatedEntries, toCreate,
                   newPages, updateWrites, updatedPages, log, error>>
    /\ UNCHANGED credVars

\* a prompt or a fetch of lines 19-29 rejects: the await throws into the catch block
FetchFails ==
    /\ pc \in {"start", "getCourses", "getAssignments", "getExistingAssignments"}
    /\ Catch(IF pc = "start" THEN Append(log, Line("info")) ELSE log, "RequestError")
    /\ UNCHANGED <<run, db, nextPageId, assignments, newEntries, existingAssignments,
                   updatedEntries, toCreate, newPages, updateWrites, updatedPages>>
    /\ UNCHANGED credVars

\* lines 29-65: everything that runs between the await of line 29 and the await of
\* line 56, the issue of every notion.pages.create request included
Reconcile ==
    /\ pc = "getExistingAssignments"
    /\ existingAssignments' = getExistingAssignments(db)
    /\ updatedEntries' = UpdatedEntries(assignments, existingAssignments')
    /\ IF ThrowsTypeError(newEntries)
       THEN /\ Catch(log, "TypeError")
            /\ UNCHANGED <<toCreate, newPages>>
       ELSE /\ toCreate' = ToCreate(newEntries, existingAssignments')
            /\ newPages' = [i \in 1..Len(toCreate') |-> "pending"]
            /\ pc' = "awaitCreates"
            /\ UNCHANGED <<log, error>>
    /\ UNCHANGED <<run, db, nextPageId, assignments, newEntries, updateWrites, updatedPages>>
    /\ UNCHANGED credVars

\* lines 58-63: one notion.pages.create request is answered; the store adds the page
CreateFulfilled(i) ==
    /\ newPages[i] = "pending"
    /\ newPages' = [newPages EXCEPT ![i] = "fulfilled"]
    /\ db' = Append(db, [id |-> nextPageId, properties |-> toCreate[i]])
    /\ nextPageId' = nextPageId + 1
    /\ UNCHANGED <<pc, run, assignments, newEntries, existingAssignments, updatedEntries,
                   toCreate, updateWrites, updatedPages, log, error>>
    /\ UNCHANGED credVars

\* lines 56-65: a request rejects; Promise.all rejects with the first rejection, which
\* the await of line 56 throws into the catch block
CreateRejected(i) ==
    /\ newPages[i] = "pending"
    /\ newPages' = [newPages EXCEPT ![i] = "rejected"]
    /\ IF pc = "awaitCreates"
       THEN Catch(log, "RequestError")
       ELSE UNCHANGED <<pc, log, error>>
    /\ UNCHANGED <<run, db, nextPageId, assignments, newEntries, existingAssignments,
                   updatedEntries, toCreate, updateWrites, updatedPages>>
    /\ UNCHANGED credVars

\* faulty variant of CreatesAwaited: the creation promises are not awaited
CreatesAwaited_NotAwaited == TRUE

\* line 56: the await returns once every creation promise is fulfilled
CreatesAwaited == \A i \in 1..Len(newPages) : newPages[i] = "fulfilled"

\* lines 56-76: the await of line 56 returns and every notion.pages.update is issued
IssueUpdates ==
    /\ pc = "awaitCreates"
    /\ CreatesAwaited
    /\ updateWrites' = [i \in 1..Len(updatedEntries) |-> UpdateCall(updatedEntries[i])]
    /\ updatedPages' = [i \in 1..Len(updatedEntries) |-> "pending"]
    /\ pc' = "awaitUpdates"
    /\ UNCHANGED <<run, db, nextPageId, assignments, newEntries, existingAssignments,
                   updatedEntries, toCreate, newPages, log, error>>
    /\ UNCHANGED credVars

\* the store applies the properties an update request carries to the page it names
ApplyUpdate(pages, write) ==
    [i \in 1..Len(pages) |->
        IF pages[i].id = write.page_id
        THEN [pages[i] EXCEPT !.properties = write.properties @@ pages[i].properties]
        ELSE pages[i]]

\* lines 69-74: one notion.pages.update request is answered
UpdateFulfilled(i) ==
    /\ updatedPages[i] = "pending"
    /\ updatedPages' = [updatedPages EXCEPT ![i] = "fulfilled"]
    /\ db' = ApplyUpdate(db, updateWrites[i])
    /\ UNCHANGED <<pc, run, nextPageId, assignments, newEntries, existingAssignments,
                   updatedEntries, toCreate, newPages, updateWrites, log, error>>
    /\ UNCHANGED credVars

\* lines 67-76: a request rejects and the await of line 67 throws into the catch block
UpdateRejected(i) ==
    /\ updatedPages[i] = "pending"
    /\ updatedPages' = [updatedPages EXCEPT ![i] = "rejected"]
    /\ IF pc = "awaitUpdates"
       THEN Catch(log, "RequestError")
       ELSE UNCHANGED <<pc, log, error>>
    /\ UNCHANGED <<run, db, nextPageId, assignments, newEntries, existingAssignments,
                   updatedEntries, toCreate, newPages, updateWrites>>
    /\ UNCHANGED credVars

\* lines 78-83
LogSuccess ==
    /\ pc = "awaitUpdates"
    /\ \A i \in 1..Len(updatedPages) : updatedPages[i] = "fulfilled"
    /\ log' = Append(log, Line("success"))
    /\ pc' = "done"
    /\ UNCHANGED <<run, db, nextPageId, assignments, newEntries, existingAssignments,
                   updatedEntries, toCreate, newPages, updateWrites, updatedPages, error>>
    /\ UNCHANGED credVars

NoRequestPending ==
    /\ \A i \in 1..Len(newPages) : newPages[i] # "pending"
    /\ \A i \in 1..Len(updatedPages) : updatedPages[i] # "pending"

\* the process has exited and the script is invoked again: lines 17-18
RunAgain ==
    /\ pc = "done"
    /\ NoRequestPending
    /\ run < MaxRuns
    /\ run' = run + 1
    /\ pc' = "start"
    /\ newEntries' = <<>>
    /\ existingAssignments' = <<>>
    /\ updatedEntries' = <<>>
    /\ toCreate' = <<>>
    /\ newPages' = <<>>
    /\ updateWrites' = <<>>
    /\ updatedPages' = <<>>
    /\ error' = None
    /\ UNCHANGED <<db, nextPageId, assignments, log>>
    /\ UNCHANGED credVars

Pass ==
    \/ GetDatabase
    \/ GetCourses
    \/ GetAssignments
    \/ FetchFails
    \/ Reconcile
    \/ \E i \in 1..Len(newPages) : CreateFulfilled(i)
    \/ \E i \in 1..Len(newPages) : CreateRejected(i)
    \/ IssueUpdates
    \/ \E i \in 1..Len(updatedPages) : UpdateFulfilled(i)
    \/ \E i \in 1..Len(updatedPages) : UpdateRejected(i)
    \/ LogSuccess

Next == Pass

Spec == Init /\ [][Next]_vars

NextRerun == Pass \/ RunAgain

SpecRerun == Init /\ [][NextRerun]_vars

----------------------------------------------------------------------------
(* The credential getters: lines 354-431.  They are exported and are checked *)
(* from every state of the file system, called in any order.                *)

\* lines 399 and 426: fs.mkdirSync(paths.config, { recursive: true }); getNotionKey
\* (lines 366-374) writes the file without it
MakesConfigDir(file) == file \in {"canvas.key", "canvas.url"}

\* lines 362-364, 387-389, 414-416: the file exists and its contents are returned
ReadSecret(file) ==
    /\ files[file] # None
    /\ lastCall' = [file |-> file, absent |-> FALSE, entered |-> None,
                    outcome |-> "returned", value |-> files[file]]
    /\ UNCHANGED <<configDir, files>>

\* lines 366-376, 391-403, 418-430: the prompt, then mkdirSync (if any), then
\* writeFileSync, which throws ENOENT when the directory does not exist.
\* entered = None is a prompt that rejects.
PromptSecret(file, entered) ==
    /\ files[file] = None
    /\ IF entered = None
       THEN /\ lastCall' = [file |-> file, absent |-> TRUE, entered |-> None,
                            outcome |-> "threw", value |-> None]
            /\ UNCHANGED <<configDir, files>>
       ELSE /\ configDir' = (configDir \/ MakesConfigDir(file))
            /\ IF configDir'
               THEN /\ files' = [files EXCEPT ![file] = entered]
                    /\ lastCall' = [file |-> file, absent |-> TRUE, entered |-> entered,
                                    outcome |-> "returned", value |-> entered]
               ELSE /\ UNCHANGED files
                    /\ lastCall' = [file |-> file, absent |-> TRUE, entered |-> entered,
                                    outcome |-> "threw", value |-> None]

GetSecret(file) ==
    /\ \/ ReadSecret(file)
       \/ \E entered \in OptOf(SecretValues) : PromptSecret(file, entered)
    /\ UNCHANGED syncVars

\* lines 354-377
getNotionKey == GetSecret("notion.key")

\* lines 379-404
getCanvasKey == GetSecret("canvas.key")

\* lines 406-431
getCanvasUrl == GetSecret("canvas.url")

InitCred ==
    /\ pc = "start"
    /\ run = 1
    /\ db = <<>>
    /\ nextPageId = 1
    /\ assignments = <<>>
    /\ newEntries = <<>>
    /\ existingAssignments = <<>>
    /\ updatedEntries = <<>>
    /\ toCreate = <<>>
    /\ newPages = <<>>
    /\ updateWrites = <<>>
    /\ updatedPages = <<>>
    /\ log = <<>>
    /\ error = None
    /\ configDir \in BOOLEAN
    /\ files \in [SecretFiles -> OptOf(SecretValues)]
    /\ ~configDir => \A f \in SecretFiles : files[f] = None
    /\ lastCall = NoCall

NextCred == getNotionKey \/ getCanvasKey \/ getCanvasUrl

SpecCred == InitCred /\ [][NextCred]_vars

----------------------------------------------------------------------------
(* Properties *)

\* the reconciliation of lines 29-54 has produced toCreate and updatedEntries
Reconciled ==
    \/ pc \in {"awaitCreates", "awaitUpdates"}
    \/ pc = "done" /\ (Len(newPages) > 0 \/ Len(updatedPages) > 0 \/ error = None)

\* the database is as the query of line 90 saw it
DbAsQueried ==
    /\ pc = "awaitCreates"
    /\ \A i \in 1..Len(newPages) : newPages[i] = "pending"

CreateIds == {toString(toCreate[i][AID].number[1]) : i \in 1..Len(toCreate)}

\* the assignment ids the lookup gives for the pages the update set names
UpdateIds ==
    {existingAssignments[j].assignmentId :
        j \in {k \in 1..Len(existingAssignments) :
                 \E u \in 1..Len(updatedEntries) :
                    updatedEntries[u].page_id = existingAssignments[k].pageId}}

NonSentinelIds ==
    {toString(assignments[i].id[1]) :
        i \in {k \in 1..Len(assignments) : assignments[k].name # Some(SENTINEL)}}

\* C1: once reconciled, the creation set and the update set share no assignment id,
\* and the ids in either of them are exactly the ids of the assignments whose name is
\* not the sentinel.
C1_DisjointAndCovering ==
    Reconciled =>
        /\ CreateIds \cap UpdateIds = {}
        /\ CreateIds \cup UpdateIds = NonSentinelIds

C1_Witness ==
    /\ pc = "awaitCreates"
    /\ Len(toCreate) > 0
    /\ Len(updatedEntries) > 0

\* C2: no two creation writes of one run are for the same assignment id.
C2_NoDuplicateCreate ==
    \A i, j \in 1..Len(newPages) :
        i # j => toCreate[i][AID].number # toCreate[j][AID].number

PageById(id) == CHOOSE page \in Range(db) : page.id = id

\* C3: in a second run with the same assignments, after a fully successful first run,
\* the creation set is empty and every update is of a page whose due date differs from
\* the assignment's.
C3_Idempotent ==
    (/\ run = 2
     /\ DbAsQueried
     /\ \E l \in 1..Len(log) : log[l] = [run |-> 1, level |-> "success"])
    => /\ toCreate = <<>>
       /\ \A u \in 1..Len(updatedEntries) :
            PageById(updatedEntries[u].page_id).properties["Due Date"]
                # updatedEntries[u].properties["Due Date"]

\* C4: every update write issued names the page the lookup resolves for the assignment
\* and carries exactly the due date and the URL.
C4_UpdateCarriesDueDateAndUrl ==
    \A u \in 1..Len(updateWrites) :
        /\ \E j \in 1..Len(existingAssignments) :
                existingAssignments[j].pageId = updateWrites[u].page_id
        /\ DOMAIN updateWrites[u].properties = {"Due Date", "Assignment URL"}

\* C5: once the existing entries are fetched, an assignment with no id and a name that
\* is not the sentinel has a creation write issued for it, and no update.
C5_AbsentIdCreated ==
    (pc \in {"awaitCreates", "awaitUpdates", "done"} /\ error # Some("RequestError"))
    => \A i \in 1..Len(assignments) :
         (assignments[i].id = None /\ assignments[i].name # Some(SENTINEL))
         => \E c \in 1..Len(newPages) : toCreate[c][AID].number = None

CreatesAllFulfilled == \A i \in 1..Len(newPages) : newPages[i] = "fulfilled"

\* C6 (as stated): a creation write that fails does not keep any update write from
\* being issued.
C6_UpdatesIndependentOfCreates ==
    (pc = "done" /\ \E i \in 1..Len(newPages) : newPages[i] = "rejected")
    => Len(updateWrites) = Len(updatedEntries)

\* C6 (amended): update writes are issued only after every creation write of the run
\* has succeeded; while a creation write is pending or has failed, none is issued.
C6_UpdatesAfterCreates ==
    /\ Len(updateWrites) > 0 => CreatesAllFulfilled
    /\ pc = "awaitCreates" => updateWrites = <<>>
    /\ pc = "awaitUpdates" => Len(updateWrites) = Len(updatedEntries)

C6_Witness ==
    /\ Len(updateWrites) > 0
    /\ Len(newPages) > 0

OutcomeLines == {l \in 1..Len(log) : log[l].run = run /\ log[l].level \in {"success", "error"}}

\* C7: a finished run has logged exactly one outcome line, the summary if and only if
\* no prompt, fetch or write failed.
C7_OneOutcome ==
    pc = "done" =>
        /\ Cardinality(OutcomeLines) = 1
        /\ (\E l \in OutcomeLines : log[l].level = "success")
            <=> (error # Some("RequestError"))

\* C8: a getter called while its file is absent, with a value entered at the prompt,
\* returns that value and leaves the directory and the file in place with that value.
C8_AbsentSecretPersisted ==
    (lastCall.outcome # "none" /\ lastCall.absent /\ lastCall.entered # None)
    => /\ lastCall.outcome = "returned"
       /\ lastCall.value = lastCall.entered
       /\ configDir
       /\ files[lastCall.file] = lastCall.entered

NumberTyped(page) ==
    IF AID \in DOMAIN page.properties THEN page.properties[AID].type = "number" ELSE FALSE

\* C9: a page whose Assignment Id property is missing or is not number-typed is never
\* in the lookup and is never the target of an update write.
C9_OnlyNumberTypedMatched ==
    \A page \in Range(db) :
        ~NumberTyped(page) =>
            /\ \A j \in 1..Len(existingAssignments) :
                    existingAssignments[j].pageId # page.id
            /\ \A u \in 1..Len(updateWrites) : updateWrites[u].page_id # page.id

C9_Witness ==
    /\ pc = "awaitUpdates"
    /\ Len(updateWrites) > 0
    /\ \E page \in Range(db) :
        /\ AID \in DOMAIN page.properties
        /\ page.properties[AID].type = "rich_text"
        /\ \E i \in 1..Len(assignments) :
            /\ assignments[i].name # Some(SENTINEL)
            /\ assignments[i].id # None
            /\ page.properties[AID].text = Some(toString(assignments[i].id[1]))

\* C10: every page of the database with a number-typed Assignment Id holding n is in
\* the lookup as (string of n, page id).
C10_LookupComplete ==
    DbAsQueried =>
        \A page \in Range(db) :
            (NumberTyped(page) /\ page.properties[AID].number # None)
            => \E j \in 1..Len(existingAssignments) :
                existingAssignments[j] =
                    [assignmentId |-> toString(page.properties[AID].number[1]),
                     pageId |-> page.id]

====
